---- MODULE Spec2Model ----
(***************************************************************************)
(* A model of src/main.py: the demo-request backend.                       *)
(*                                                                         *)
(* Text is modelled by TLA+ strings (Len, SubSeq and \o act on them as on  *)
(* Python str), Optional[str] by a sequence of length 0 (None) or 1.       *)
(* The pictographs that prefix the diagnostic texts of test_database are   *)
(* left out of the string literals; the words after them are kept.         *)
(***************************************************************************)
EXTENDS Integers, Sequences, FiniteSets, TLC

VARIABLES importOK, db, env, store, slots, nsuccess, rep

vars == <<importOK, db, env, store, slots, nsuccess, rep>>

(***************************************************************************)
(* Bounds of the model.                                                    *)
(***************************************************************************)
\* documents the demo-request collection may hold before submissions stop
MaxDocs == 2
\* largest number of names a collection listing returns (more than 10)
MaxNames == 11

(***************************************************************************)
(* Python values.                                                          *)
(***************************************************************************)
None == <<>>
Some(v) == <<v>>

Min(a, b) == IF a < b THEN a ELSE b

\* s[:n]
Prefix(s, n) == SubSeq(s, 1, Min(n, Len(s)))

\* the truth value Python gives an Optional[str]: None and "" are false
Truthy(o) == o # None /\ o[1] # ""

CharAt(s, i) == SubSeq(s, i, i)

Upper == "ABCDEFGHIJKLMNOPQRSTUVWXYZ"
Lower == "abcdefghijklmnopqrstuvwxyz"

LowerChar(c) ==
    IF \E i \in 1..26 : CharAt(Upper, i) = c
    THEN CharAt(Lower, CHOOSE i \in 1..26 : CharAt(Upper, i) = c)
    ELSE c

RECURSIVE LowerStr(_)
LowerStr(s) ==
    IF Len(s) = 0 THEN ""
    ELSE LowerChar(CharAt(s, 1)) \o LowerStr(SubSeq(s, 2, Len(s)))

\* the positions of character c in s
Positions(s, c) == {i \in 1..Len(s) : CharAt(s, i) = c}

(***************************************************************************)
(* Validation layer: the request and response models.                      *)
(***************************************************************************)
\* EmailSyntaxOK without the requirement of a dot in the domain
EmailSyntaxOK_nodot(e) ==
    /\ Cardinality(Positions(e, "@")) = 1
    /\ Positions(e, " ") = {}
    /\ LET at == CHOOSE i \in Positions(e, "@") : TRUE
           dots == {i \in Positions(e, ".") : i > at}
       IN  /\ at > 1
           /\ at < Len(e)
           /\ at + 1 \notin dots
           /\ Len(e) \notin dots
           /\ \A i \in dots : i + 1 \notin dots

\* EmailStr (pydantic, checked by email-validator): one "@", a non-empty
\* local part, a domain with a dot and no empty label, no white space.  (The inputs of this model carry no leading
\* or trailing white space, which the validator would strip.)
EmailSyntaxOK(e) ==
    /\ Cardinality(Positions(e, "@")) = 1
    /\ Positions(e, " ") = {}
    /\ LET at == CHOOSE i \in Positions(e, "@") : TRUE
           dots == {i \in Positions(e, ".") : i > at}
       IN  /\ at > 1
           /\ dots # {}
           /\ at + 1 \notin dots
           /\ Len(e) \notin dots
           /\ \A i \in dots : i + 1 \notin dots

\* The value EmailStr validation yields: the address with its domain part
\* in lower case (the local part keeps its case).
EmailStr(e) ==
    LET at == CHOOSE i \in Positions(e, "@") : TRUE
    IN  SubSeq(e, 1, at) \o LowerStr(SubSeq(e, at + 1, Len(e)))

\* DemoRequestIn(**body): the validated payload, or a rejection.
DemoRequestIn(p) ==
    IF p.email = None \/ ~EmailSyntaxOK(p.email[1])
    THEN [ok |-> FALSE, loc |-> "email"]
    ELSE [ok |-> TRUE,
          value |-> [email |-> EmailStr(p.email[1]), name |-> p.name,
                     company |-> p.company, message |-> p.message]]

\* payload.model_dump()
model_dump(v) ==
    [email |-> Some(v.email), name |-> v.name, company |-> v.company,
     message |-> v.message]

\* DemoRequestOut with an id that must be non-empty
DemoRequestOut_min_length(d) ==
    IF EmailSyntaxOK(d.email) /\ d.id # ""
    THEN [ok |-> TRUE, value |-> [d EXCEPT !.email = EmailStr(d.email)]]
    ELSE [ok |-> FALSE, loc |-> "id"]

\* response_model=DemoRequestOut applied to a returned dict: id is a str,
\* email an EmailStr.  An empty string is a str.
DemoRequestOut(d) ==
    IF EmailSyntaxOK(d.email)
    THEN [ok |-> TRUE, value |-> [d EXCEPT !.email = EmailStr(d.email)]]
    ELSE [ok |-> FALSE, loc |-> "email"]

(***************************************************************************)
(* Storage adapter.  An outcome of an adapter operation is a return value  *)
(* or a raised exception: [ok |-> TRUE, val |-> v] or                      *)
(* [ok |-> FALSE, val |-> str(e)].                                         *)
(***************************************************************************)
Returned(v) == [ok |-> TRUE, val |-> v]
Raised(m) == [ok |-> FALSE, val |-> m]

\* the message of the stand-in create_document / get_documents
DbNotAvailable ==
    "Database not available. Check DATABASE_URL and DATABASE_NAME env vars."

\* an error text longer than 50 characters
LongError ==
    "ServerSelectionTimeoutError: localhost:27017: [Errno 111] Connection refused"

\* values create_document may hand to the handler as new_id: the handler
\* and DemoRequestOut (id: str) take any string, the empty one included
Ids == {"abc123", ""}

\* the adapter handle: absent (None), or an object with a truth value
\* (true, false, or bool() raising) and a name attribute (missing, a
\* string, or a property that raises)
NoHandle == [present |-> FALSE, truth |-> "false", name |-> "noattr"]
Handles ==
    [present : {TRUE}, truth : {"true", "false", "raises"},
     name : {"noattr", "value", "raises"}]
DbNameValue == "leads"

\* `from database import db, create_document, get_documents`, or the
\* stand-ins of the except branch: what a call of create_document may do.
create_document(imp, d) ==
    IF ~imp THEN {Raised(DbNotAvailable)}
    ELSE IF ~d.present THEN {Raised(DbNotAvailable), Raised("disk full")}
    ELSE {Returned(i) : i \in Ids} \cup {Raised("disk full")}

\* the adapter's write: one document appended when the call returns, none
\* when it raises
AdapterInsert(st, data, out) == IF out.ok THEN Append(st, data) ELSE st

(***************************************************************************)
(* POST /api/demo-requests                                                 *)
(***************************************************************************)
\* create_demo_request with name and company exchanged in the response
create_demo_request_swapped(payload, out) ==
    IF out.ok
    THEN [status |-> 200,
          body |-> [id |-> out.val, email |-> payload.email,
                    name |-> payload.company, company |-> payload.name]]
    ELSE [status |-> 500, detail |-> out.val]

\* create_demo_request raising HTTPException(500) without the detail
create_demo_request_generic(payload, out) ==
    IF out.ok
    THEN [status |-> 200,
          body |-> [id |-> out.val, email |-> payload.email,
                    name |-> payload.name, company |-> payload.company]]
    ELSE [status |-> 500, detail |-> "Internal Server Error"]

\* create_demo_request swallowing the exception and answering all the same
create_demo_request_swallow(payload, out) ==
    [status |-> 200,
     body |-> [id |-> IF out.ok THEN out.val ELSE "pending",
               email |-> payload.email, name |-> payload.name,
               company |-> payload.company]]

\* the handler's return or except branch, given the outcome of
\* create_document, with response_model applied to a returned dict
create_demo_request(payload, out) ==
    IF out.ok
    THEN LET ret == [id |-> out.val, email |-> payload.email,
                     name |-> payload.name, company |-> payload.company]
             chk == DemoRequestOut(ret)
         IN  IF chk.ok THEN [status |-> 200, body |-> chk.value]
             ELSE [status |-> 500, detail |-> "Internal Server Error"]
    ELSE [status |-> 500, detail |-> out.val]

Slots == {1, 2}

Idle == [phase |-> "idle"]

\* request bodies
Payloads ==
    { [email |-> Some("a@b.com"), name |-> Some("Ada"), company |-> None,
       message |-> None],
      [email |-> Some("Joe@B.Com"), name |-> None, company |-> Some("Acme"),
       message |-> Some("hi")],
      [email |-> Some("a@b.com"), name |-> Some(""), company |-> None,
       message |-> Some("again")],
      [email |-> Some("not-an-email"), name |-> None, company |-> None,
       message |-> None],
      [email |-> Some("a@b"), name |-> Some("Ada"), company |-> None,
       message |-> None],
      [email |-> Some(""), name |-> None, company |-> None,
       message |-> Some("hi")],
      [email |-> Some("a b@c.de"), name |-> None, company |-> None,
       message |-> None],
      [email |-> None, name |-> Some("Ada"), company |-> Some("Acme"),
       message |-> None] }

\* A request arrives in slot s.  The body is validated against
\* DemoRequestIn; a rejected body is answered 422 and the handler does not
\* run.  Otherwise the handler runs up to and including its call of
\* create_document.
Post(s, p) ==
    /\ slots[s].phase \in {"idle", "done"}
    /\ LET v == DemoRequestIn(p)
       IN  IF ~v.ok
           THEN /\ slots' = [slots EXCEPT ![s] =
                       [phase |-> "done", payload |-> p, calls |-> 0,
                        before |-> Len(store), after |-> Len(store),
                        resp |-> [status |-> 422, loc |-> v.loc]]]
                /\ store' = store
           ELSE \E out \in create_document(importOK, db) :
                /\ out.ok => Len(store) < MaxDocs
                /\ store' = AdapterInsert(store, model_dump(v.value), out)
                /\ slots' = [slots EXCEPT ![s] =
                       [phase |-> "called", payload |-> p,
                        valid |-> v.value, calls |-> 1, out |-> out,
                        before |-> Len(store), after |-> Len(store')]]
    /\ UNCHANGED <<importOK, db, env, nsuccess, rep>>

\* The handler in slot s returns: its response reaches the caller.
Return(s) ==
    /\ slots[s].phase = "called"
    /\ LET r == create_demo_request(slots[s].valid, slots[s].out)
       IN  /\ slots' = [slots EXCEPT ![s] =
                  [phase |-> "done", payload |-> slots[s].payload,
                   valid |-> slots[s].valid, calls |-> slots[s].calls,
                   out |-> slots[s].out, before |-> slots[s].before,
                   after |-> slots[s].after, resp |-> r]]
           /\ nsuccess' = IF r.status = 200 THEN nsuccess + 1 ELSE nsuccess
    /\ UNCHANGED <<importOK, db, env, store, rep>>

Submit(S, P) ==
    \E s \in S : (\E p \in P : Post(s, p)) \/ Return(s)

NoReport == [kind |-> "none"]

EnvValues == {None, Some(""), Some("mongodb://db:27017")}

\* the module is imported: the adapter import succeeded or fell back
InitSubmit ==
    /\ importOK \in BOOLEAN
    /\ db \in IF importOK THEN {NoHandle, [present |-> TRUE, truth |-> "true", name |-> "value"]}
              ELSE {NoHandle}
    /\ env = [DATABASE_URL |-> None, DATABASE_NAME |-> None]
    /\ store = <<>>
    /\ slots = [s \in Slots |-> Idle]
    /\ nsuccess = 0
    /\ rep = NoReport

NextSubmit == Submit(Slots, Payloads)

Spec == InitSubmit /\ [][NextSubmit]_vars

(***************************************************************************)
(* GET /, GET /api/hello, GET /api/health                                  *)
(***************************************************************************)
\* what the framework answers when a handler lets an exception escape
ServerError == [status |-> 500, detail |-> "Internal Server Error"]

read_root == [status |-> 200, body |-> [message |-> "Hello from FastAPI Backend!"]]

hello == [status |-> 200, body |-> [message |-> "Hello from the backend API!"]]

\* bool(db) and "available" or "unavailable"
health(d) ==
    IF d.truth = "raises" THEN ServerError
    ELSE [status |-> 200,
          body |-> [status |-> "ok",
                    database |-> IF d.truth = "true" THEN "available"
                                 ELSE "unavailable",
                    version |-> "1.0.0"]]

(***************************************************************************)
(* GET /api/metrics                                                        *)
(***************************************************************************)
base_metrics ==
    << [label |-> "EHR Feeds", value |-> 142, hint |-> "+12 this week"],
       [label |-> "Claims/day", value |-> "1.8M", hint |-> "EDI 837/835"],
       [label |-> "Avg. Latency", value |-> "320ms", hint |-> "stream pipelines"],
       [label |-> "AI Models", value |-> 28, hint |-> "risk & quality"] >>

\* db["demorequest"].count_documents({}): the number of stored documents,
\* or an exception
count_documents(st) == {Returned(Len(st)), Raised("not authorized")}

\* `if db:` raising is caught by the outer try, count_documents raising by
\* the inner one; the list is built anew on every call
get_metrics(d, cnt) ==
    [status |-> 200,
     body |-> [metrics |->
        IF d.truth = "true" /\ cnt.ok
        THEN Append(base_metrics,
                    [label |-> "Demo Requests", value |-> cnt.val,
                     hint |-> "total received"])
        ELSE base_metrics]]

(***************************************************************************)
(* GET /test                                                               *)
(***************************************************************************)
\* collections[:10]
ListedMax == 10
\* str(e)[:50]
ErrorMax == 50

\* the text of the exception a raising name property throws
NameError == "OperationFailure: database name is not readable by this user"

CollectionNames(n) == [i \in 1..n |-> "c" \o ToString(i)]
Reversed(q) == [i \in 1..Len(q) |-> q[Len(q) + 1 - i]]

\* db.list_collection_names(): a list of names, or an exception
list_collection_names ==
    {Returned(CollectionNames(n)) : n \in 0..MaxNames}
        \cup {Returned(Reversed(CollectionNames(n))) : n \in 2..MaxNames}
        \cup {Raised("not authorized"), Raised(LongError)}

\* os.getenv(k)
getenv(e, k) == e[k]

\* test_database_checks without the [:10]
test_database_checks_unsliced(d, lst) ==
    LET response == [backend |-> "Running", database |-> "Not Available",
                     database_url |-> None, database_name |-> None,
                     connection_status |-> "Not Connected",
                     collections |-> <<>>]
    IN  IF d.present
        THEN LET r1 == [response EXCEPT !.database = "Available",
                                        !.database_url = Some("Configured")]
             IN  IF d.name = "raises"
                 THEN [r1 EXCEPT !.database =
                           "Error: " \o Prefix(NameError, ErrorMax)]
                 ELSE LET r2 == [r1 EXCEPT
                              !.database_name =
                                  Some(IF d.name = "value" THEN DbNameValue
                                       ELSE "Connected"),
                              !.connection_status = "Connected"]
                      IN  IF lst.ok
                          THEN [r2 EXCEPT
                                   !.collections = lst.val,
                                   !.database = "Connected & Working"]
                          ELSE [r2 EXCEPT !.database =
                                   "Connected but Error: "
                                       \o Prefix(lst.val, ErrorMax)]
        ELSE [response EXCEPT !.database = "Available but not initialized"]

\* the response dict as the try statement leaves it
test_database_checks(d, lst) ==
    LET response == [backend |-> "Running", database |-> "Not Available",
                     database_url |-> None, database_name |-> None,
                     connection_status |-> "Not Connected",
                     collections |-> <<>>]
    IN  IF d.present
        THEN LET r1 == [response EXCEPT !.database = "Available",
                                        !.database_url = Some("Configured")]
             IN  IF d.name = "raises"
                 THEN [r1 EXCEPT !.database =
                           "Error: " \o Prefix(NameError, ErrorMax)]
                 ELSE LET r2 == [r1 EXCEPT
                              !.database_name =
                                  Some(IF d.name = "value" THEN DbNameValue
                                       ELSE "Connected"),
                              !.connection_status = "Connected"]
                      IN  IF lst.ok
                          THEN [r2 EXCEPT
                                   !.collections = Prefix(lst.val, ListedMax),
                                   !.database = "Connected & Working"]
                          ELSE [r2 EXCEPT !.database =
                                   "Connected but Error: "
                                       \o Prefix(lst.val, ErrorMax)]
        ELSE [response EXCEPT !.database = "Available but not initialized"]

\* test_database with the two environment flags assigned inside the
\* `if db is not None` branch
test_database_flags_in_if(d, e, lst) ==
    [status |-> 200,
     body |-> IF d.present
        THEN [test_database_checks(d, lst) EXCEPT
            !.database_url =
                Some(IF Truthy(getenv(e, "DATABASE_URL")) THEN "Set" ELSE "Not Set"),
            !.database_name =
                Some(IF Truthy(getenv(e, "DATABASE_NAME")) THEN "Set" ELSE "Not Set")]
        ELSE test_database_checks(d, lst)]

\* the whole handler: the two environment flags are assigned after the try
test_database(d, e, lst) ==
    [status |-> 200,
     body |-> [test_database_checks(d, lst) EXCEPT
        !.database_url =
            Some(IF Truthy(getenv(e, "DATABASE_URL")) THEN "Set" ELSE "Not Set"),
        !.database_name =
            Some(IF Truthy(getenv(e, "DATABASE_NAME")) THEN "Set" ELSE "Not Set")]]

(***************************************************************************)
(* The reporting requests.  rep holds the last report and what the adapter *)
(* did during it.                                                          *)
(***************************************************************************)
ReadRoot ==
    /\ rep' = [kind |-> "root", resp |-> read_root]
    /\ UNCHANGED <<importOK, db, env, store, slots, nsuccess>>

Hello ==
    /\ rep' = [kind |-> "hello", resp |-> hello]
    /\ UNCHANGED <<importOK, db, env, store, slots, nsuccess>>

Health ==
    /\ rep' = [kind |-> "health", resp |-> health(db)]
    /\ UNCHANGED <<importOK, db, env, store, slots, nsuccess>>

GetMetrics ==
    /\ \E cnt \in count_documents(store) :
           rep' = [kind |-> "metrics", adapter |-> cnt,
                   resp |-> get_metrics(db, cnt)]
    /\ UNCHANGED <<importOK, db, env, store, slots, nsuccess>>

TestDatabase ==
    /\ \E lst \in list_collection_names :
           rep' = [kind |-> "test", adapter |-> lst,
                   resp |-> test_database(db, env, lst)]
    /\ UNCHANGED <<importOK, db, env, store, slots, nsuccess>>

\* the module is imported, with any adapter handle and any environment
InitReport ==
    /\ importOK \in BOOLEAN
    /\ db \in IF importOK THEN {NoHandle} \cup Handles ELSE {NoHandle}
    /\ env \in [DATABASE_URL : EnvValues, DATABASE_NAME : EnvValues]
    /\ store = <<>>
    /\ slots = [s \in Slots |-> Idle]
    /\ nsuccess = 0
    /\ rep = NoReport

ScenarioPayload ==
    [email |-> Some("a@b.com"), name |-> Some("Ada"), company |-> None,
     message |-> None]

NextReport ==
    \/ ReadRoot
    \/ Hello
    \/ Health
    \/ GetMetrics
    \/ TestDatabase
    \/ Submit({1}, {ScenarioPayload})

SpecReport == InitReport /\ [][NextReport]_vars

(***************************************************************************)
(* Properties.                                                             *)
(***************************************************************************)
Answered(s) == slots[s].phase = "done"
Succeeded(s) == Answered(s) /\ slots[s].resp.status = 200
\* the handler in slot s has called create_document
Called(s) == slots[s].phase \in {"called", "done"} /\ slots[s].calls > 0

AtSign(e) == CHOOSE i \in Positions(e, "@") : TRUE
LocalPart(e) == SubSeq(e, 1, AtSign(e) - 1)
DomainPart(e) == SubSeq(e, AtSign(e) + 1, Len(e))

Malformed(e) ==
    \/ e = None
    \/ e # None /\ e[1] = ""
    \/ e # None /\ Positions(e[1], "@") = {}
    \/ e # None /\ Positions(e[1], "@") # {}
         /\ \A i \in Positions(e[1], ".") :
                \E j \in Positions(e[1], "@") : i < j

\* C2: a submission whose email is malformed or missing is answered with a
\* validation error, create_document is not called for it, and the stored
\* documents are as before.
C2_MalformedRejected ==
    \A s \in Slots :
        (slots[s].phase # "idle" /\ Malformed(slots[s].payload.email)) =>
            /\ Answered(s)
            /\ slots[s].resp.status = 422
            /\ slots[s].calls = 0
            /\ slots[s].after = slots[s].before

\* a body whose email has no dot in its domain has been rejected while a
\* document is stored
C2_Witness ==
    \E s \in Slots :
        /\ Answered(s)
        /\ slots[s].payload.email = Some("a@b")
        /\ slots[s].resp.status = 422
        /\ Len(store) > 0

\* C3: when create_document raises, the answer is status 500 with the
\* exception's message as detail, create_document was called once, and no
\* document was added; without an adapter the message is that of the
\* stand-in.
C3_RaiseSurfaced ==
    \A s \in Slots :
        (Called(s) /\ ~slots[s].out.ok) =>
            /\ slots[s].calls = 1
            /\ slots[s].after = slots[s].before
            /\ ~importOK => slots[s].out.val = DbNotAvailable
            /\ Answered(s) =>
                   /\ slots[s].resp.status = 500
                   /\ slots[s].resp.detail = slots[s].out.val

\* a submission has been answered 500 "disk full"
C3_Witness ==
    \E s \in Slots :
        /\ Answered(s)
        /\ Called(s)
        /\ slots[s].out = Raised("disk full")
        /\ slots[s].resp.status = 500

\* C4: health answers status "ok", version "1.0.0", and database
\* "unavailable" exactly when the adapter handle is None.
C4_HealthIffAbsent ==
    rep.kind = "health" =>
        /\ rep.resp.status = 200
        /\ rep.resp.body.status = "ok"
        /\ rep.resp.body.version = "1.0.0"
        /\ (rep.resp.body.database = "unavailable") <=> ~db.present
        /\ rep.resp.body.database \in {"available", "unavailable"}

\* C5: get_metrics answers the four baseline metrics in order, followed by
\* the live count exactly when the handle is present and count_documents
\* returns.
C5_MetricsShape ==
    rep.kind = "metrics" =>
        LET m == rep.resp.body.metrics
        IN  /\ rep.resp.status = 200
            /\ Len(m) >= 4
            /\ \A i \in 1..4 : m[i] = base_metrics[i]
            /\ (db.present /\ rep.adapter.ok) =>
                   /\ Len(m) = 5
                   /\ m[5].label = "Demo Requests"
                   /\ m[5].value = Len(store)
            /\ (~db.present \/ ~rep.adapter.ok) => Len(m) = 4

\* C6 as stated: the report is status 200 and each environment flag is
\* "Set" exactly when its variable is in the environment, an empty value
\* included.
C6_FlagsIffInEnvironment ==
    rep.kind = "test" =>
        /\ rep.resp.status = 200
        /\ (rep.resp.body.database_url = Some("Set"))
               <=> (env.DATABASE_URL # None)
        /\ (rep.resp.body.database_name = Some("Set"))
               <=> (env.DATABASE_NAME # None)

\* C6 as amended: the report is status 200 in every adapter state, and each
\* environment flag is "Set" exactly when its variable is set to a
\* non-empty value, "Not Set" otherwise.
C6_FlagsIffNonEmpty ==
    rep.kind = "test" =>
        /\ rep.resp.status = 200
        /\ \A k \in {"DATABASE_URL", "DATABASE_NAME"} :
               LET flag == IF k = "DATABASE_URL"
                           THEN rep.resp.body.database_url
                           ELSE rep.resp.body.database_name
               IN  /\ flag \in {Some("Set"), Some("Not Set")}
                   /\ (flag = Some("Set"))
                          <=> (env[k] # None /\ Len(env[k][1]) > 0)

\* a report with a working handle that has a name, DATABASE_NAME unset and
\* DATABASE_URL set to the empty string
C6_Witness ==
    /\ rep.kind = "test"
    /\ db.present
    /\ db.name = "value"
    /\ rep.adapter.ok
    /\ env.DATABASE_NAME = None
    /\ env.DATABASE_URL = Some("")
    /\ rep.resp.body.database_name = Some("Not Set")

InFlightWritten ==
    {s \in Slots : slots[s].phase = "called" /\ slots[s].out.ok}

\* C8: the collection holds one document per success response (and one per
\* handler that has written and not answered yet): a success inserted one
\* document, any other answer none, whatever the stored emails are.
C8_OneDocumentPerSuccess ==
    /\ Len(store) = nsuccess + Cardinality(InFlightWritten)
    /\ \A s \in Slots :
           Answered(s) =>
               slots[s].after - slots[s].before
                   = IF slots[s].resp.status = 200 THEN 1 ELSE 0

\* two successes with the same email, both stored, none in flight
C8_Witness ==
    /\ nsuccess = 2
    /\ Len(store) = 2
    /\ store[1].email = store[2].email
    /\ \A s \in Slots : Succeeded(s)

\* the handler reached db.list_collection_names()
ListingCalled == db.present /\ db.name # "raises"

\* C9: when the listing returns n names the report holds the first
\* min(n, 10) in order and the database is "Connected & Working"; when it
\* raises, collections is empty, database is the error text, and the other
\* entries are reported.
C9_ListingReported ==
    (rep.kind = "test" /\ ListingCalled) =>
        LET b == rep.resp.body
            names == rep.adapter.val
        IN  /\ rep.resp.status = 200
            /\ b.backend = "Running"
            /\ b.connection_status = "Connected"
            /\ b.database_url \in {Some("Set"), Some("Not Set")}
            /\ b.database_name \in {Some("Set"), Some("Not Set")}
            /\ rep.adapter.ok =>
                   /\ Len(b.collections) = Min(Len(names), 10)
                   /\ \A i \in 1..Len(b.collections) :
                          b.collections[i] = names[i]
                   /\ b.database = "Connected & Working"
            /\ ~rep.adapter.ok =>
                   /\ b.collections = <<>>
                   /\ Len(b.database)
                          = Len("Connected but Error: ") + Min(Len(names), 50)
                   /\ \E rest \in {SubSeq(names, 1, n) : n \in 0..Len(names)} :
                          b.database = "Connected but Error: " \o rest

\* a listing of 11 names, in reverse order, reported as its first 10
C9_Witness ==
    /\ rep.kind = "test"
    /\ ListingCalled
    /\ rep.adapter.ok
    /\ Len(rep.adapter.val) = 11
    /\ rep.adapter.val[1] = "c11"
    /\ Len(rep.resp.body.collections) = 10

\* C10: when the handle exists and its name is retrievable, the report
\* shows the result of the name retrieval, in the entry the handler
\* assigns it to.
C10_NameReported ==
    (rep.kind = "test" /\ db.present /\ db.name = "value") =>
        rep.resp.body.database_name = Some(DbNameValue)

====
